---- MODULE Spec2Model ----
(***************************************************************************)
(* organize-my-beats: copy audio files into year-named folders.            *)
(*                                                                         *)
(* Spec      the concurrent engine, organize_my_beats.MusicOrganizer: one  *)
(*           scanner thread, NumWorkers worker threads, the main thread in *)
(*           organize() and a caller that may call stop().                 *)
(* FairSpec  Spec with weak fairness on every thread of the engine (the    *)
(*           caller of stop() is not obliged to call it).                  *)
(* SpecCli   the sequential engine, cli.copy_by_year, called MaxRuns times *)
(*           on the same source tree and destination.                      *)
(* SpecYear  the year resolvers (organizer.extract_year and the three      *)
(*           get_song_year), each applied to one file.                     *)
(* SpecMain  cli.main: the path tests, then copy_by_year, then the return. *)
(* SpecRerun Spec with organize() called again on the same object.         *)
(* SpecOrg   the engine of organizer.MusicOrganizer: organize_by_year      *)
(*           called MaxOrgRuns times, and abort().                         *)
(***************************************************************************)
EXTENDS Integers, Sequences, FiniteSets, TLC

\* ------------------------------------------------------------------ bounds
NumWorkers == 2
MaxDirs == 2
MaxPerDir == 2
MaxFiles == 2

\* --------------------------------------------------------------- strings
\* A string is a sequence of one-character strings.
Digits == {"0", "1", "2", "3", "4", "5", "6", "7", "8", "9"}

\* str.isdigit() on a non-empty ASCII string
IsDigitStr(s) == Len(s) > 0 /\ \A i \in 1..Len(s) : s[i] \in Digits

\* a tag the file does not carry ("tag in audio" is false)
Absent == <<"absent">>

\* Python None as returned by the easy-tag resolvers (which return strings)
NoneStr == <<"None">>

\* ------------------------------------------------------------- the source
\* The tag names probed by the easy-tag resolvers, in probe order.
EasyTags == <<"date", "year", "originaldate", "copyright">>

NoTags == [t \in {"date", "year", "originaldate", "copyright"} |-> Absent]

\* A source file: its name, whether its suffix is in AUDIO_EXTENSIONS, what
\* MutagenFile does with it ("ok", "none": returns a falsy object, "raise"),
\* its easy tags, and the step of the copy that raises for it, if any.
FileRec(n, a, m, tg, f) == [name |-> n, audio |-> a, meta |-> m, tags |-> tg, fail |-> f]

fDated == FileRec("a.mp3", TRUE, "ok",
                  [NoTags EXCEPT !["date"] = <<"1", "9", "9", "5", "-", "0", "3">>], "none")
fPlain == FileRec("b.mp3", TRUE, "ok", NoTags, "none")
fLocked == FileRec("a.mp3", TRUE, "ok",
                   [NoTags EXCEPT !["year"] = <<"1", "9", "9", "5">>], "copy")
fFuture == FileRec("c.mp3", TRUE, "ok",
                   [NoTags EXCEPT !["date"] = <<"9", "9", "9", "9">>], "none")
fText == FileRec("n.txt", FALSE, "none", NoTags, "none")

\* MutagenFile raises on fBroken; creating fSealed's year folder raises
fBroken == FileRec("d.wav", TRUE, "raise", NoTags, "none")
fSealed == FileRec("e.mp3", TRUE, "ok",
                   [NoTags EXCEPT !["date"] = <<"1", "9", "8", "0">>], "mkdir")

\* a file without tags whose copy raises
fStuck == FileRec("f.mp3", TRUE, "ok", NoTags, "copy")

\* the files the concurrent engine is run on, and those the CLI is run on
ConcPool == {fDated, fPlain, fLocked, fFuture, fText}
CliPool == ConcPool \cup {fBroken, fSealed, fStuck}

\* a tree of four files: two with a year, one without tags, one unreadable
exA == FileRec("a.mp3", TRUE, "ok",
               [NoTags EXCEPT !["date"] = <<"1", "9", "9", "5", "-", "0", "6", "-", "0", "1">>],
               "none")
exB == FileRec("b.flac", TRUE, "ok", [NoTags EXCEPT !["year"] = <<"1", "9", "8", "0">>], "none")
exC == FileRec("c.mp3", TRUE, "ok", NoTags, "none")
exD == FileRec("d.wav", TRUE, "raise", NoTags, "none")
ExampleTree == << <<exA, exB, exD>>, <<exC>> >>

NoFile == FileRec("", FALSE, "none", NoTags, "none")

RECURSIVE SeqsUpTo(_, _)
SeqsUpTo(S, n) ==
    IF n = 0 THEN {<< >>}
    ELSE LET shorter == SeqsUpTo(S, n - 1)
         IN shorter \cup {Append(s, x) : s \in {q \in shorter : Len(q) = n - 1}, x \in S}

\* the files of one directory, in listing order: names are unique
DirListings(pool) ==
    {d \in SeqsUpTo(pool, MaxPerDir) :
        \A i, j \in 1..Len(d) : i # j => d[i].name # d[j].name}

RECURSIVE Flatten(_)
Flatten(t) == IF t = << >> THEN << >> ELSE Head(t) \o Flatten(Tail(t))

\* the (root, dirs, files) triples of os.walk, top-down: one listing each
Trees(pool) ==
    {t \in SeqsUpTo(DirListings(pool), MaxDirs) : Len(t) >= 1 /\ Len(Flatten(t)) <= MaxFiles}

Qualifying(t) == SelectSeq(Flatten(t), LAMBDA f : f.audio)


\* ------------------------------------------------- the destination folder
\* The destination is a set of folders and a map from <<folder, name>> to the
\* content of the file at that path; a copied file has its source as content.
OldContent == NoFile

\* the folder for files without a year
UnknownYear == <<"Unknown Year">>

EmptyDest == [dirs |-> {}, files |-> << >>]

StaleDest ==
    [dirs |-> {<<"1", "9", "9", "5">>},
     files |-> (<< <<"1", "9", "9", "5">>, "a.mp3" >> :> OldContent)]

InitialDests == {EmptyDest, StaleDest}

exists(d, path) == path \in DOMAIN d.files

\* folder.mkdir(parents=True, exist_ok=True)
mkdir(d, folder) == [d EXCEPT !.dirs = @ \cup {folder}]

\* mkdir raises for a file marked so, unless the folder is already there
MkdirRaises(d, f, folder) == f.fail = "mkdir" /\ folder \notin d.dirs

\* copy2 writing every file into the Unknown Year folder
copy2Misfiled(d, f, path) ==
    [d EXCEPT !.files = [p \in (DOMAIN @) \cup {<<UnknownYear, path[2]>>} |->
                            IF p = <<UnknownYear, path[2]>> THEN f ELSE @[p]]]

\* shutil.copy2(filepath, dest_file): creates or overwrites dest_file
copy2(d, f, path) ==
    [d EXCEPT !.files = [p \in (DOMAIN @) \cup {path} |-> IF p = path THEN f ELSE @[p]]]

\* ----------------------------------------------------------------- stats
EmptyStats ==
    [total |-> 0, copied |-> 0, skipped |-> 0, no_year |-> 0, errors |-> 0, years |-> << >>]

\* dict.get(key, 0)
DictGet(d, k) == IF k \in DOMAIN d THEN d[k] ELSE 0

\* d[key] = v
DictSet(d, k, v) == [x \in (DOMAIN d) \cup {k} |-> IF x = k THEN v ELSE d[x]]

\* -------------------------- organize_my_beats.MusicOrganizer.get_song_year
RECURSIVE ProbeConc(_, _)
ProbeConc(f, i) ==
    IF i > Len(EasyTags) THEN NoneStr
    ELSE LET year_str == f.tags[EasyTags[i]]
         IN IF year_str # Absent /\ Len(year_str) >= 4 /\ IsDigitStr(SubSeq(year_str, 1, 4))
            THEN SubSeq(year_str, 1, 4)
            ELSE ProbeConc(f, i + 1)

\* MutagenFile raising is caught inside and yields None, as a falsy audio does
get_song_year(f) == IF f.meta # "ok" THEN NoneStr ELSE ProbeConc(f, 1)

\* ------------------------------------------------------ cli.get_song_year
\* datetime.now().year
CurrentYear == 2026

MinYear == 1900

DigitVal(c) ==
    CASE c = "0" -> 0 [] c = "1" -> 1 [] c = "2" -> 2 [] c = "3" -> 3 [] c = "4" -> 4
      [] c = "5" -> 5 [] c = "6" -> 6 [] c = "7" -> 7 [] c = "8" -> 8 [] c = "9" -> 9

\* int(s) for a string of digits
RECURSIVE StrToInt(_)
StrToInt(s) ==
    IF s = << >> THEN 0
    ELSE 10 * StrToInt(SubSeq(s, 1, Len(s) - 1)) + DigitVal(s[Len(s)])

\* the exception that leaves get_song_year when its handler reads the unset
\* module global "args"
Raised == <<"raise">>

RECURSIVE ProbeCli(_, _)
ProbeCli(f, i) ==
    IF i > Len(EasyTags) THEN NoneStr
    ELSE LET year_str == f.tags[EasyTags[i]]
         IN IF /\ year_str # Absent
               /\ Len(year_str) >= 4
               /\ IsDigitStr(SubSeq(year_str, 1, 4))
               /\ MinYear <= StrToInt(SubSeq(year_str, 1, 4))
               /\ StrToInt(SubSeq(year_str, 1, 4)) <= CurrentYear + 1
            THEN SubSeq(year_str, 1, 4)
            ELSE ProbeCli(f, i + 1)

\* cli.get_song_year: the year as a 4-character string, None, or Raised.
\* "except Exception: if args.verbose: ..." raises NameError when main() has
\* not set the global "args".
cli_get_song_year(f, args_set) ==
    IF f.meta = "raise" THEN (IF args_set THEN NoneStr ELSE Raised)
    ELSE IF f.meta = "none" THEN NoneStr
    ELSE ProbeCli(f, 1)

\* ------------------------------------------------------- cli.copy_by_year

CliOptions == [overwrite : BOOLEAN, unknown_year_folder : BOOLEAN, args_set : BOOLEAN]

\* CopyInto without the test "not dest_file.exists()"
CopyIntoUnchecked(d, f, folder, overwrite) ==
    IF MkdirRaises(d, f, folder) THEN [dest |-> d, out |-> "raised"]
    ELSE IF f.fail = "copy"
         THEN [dest |-> mkdir(d, folder), out |-> "raised"]
         ELSE [dest |-> copy2(mkdir(d, folder), f, <<folder, f.name>>), out |-> "copied"]

\* mkdir the folder, then copy f into it unless it is there and overwrite is
\* off. Returns the destination, and "copied", "skipped" or "raised".
CopyInto(d, f, folder, overwrite) ==
    IF MkdirRaises(d, f, folder) THEN [dest |-> d, out |-> "raised"]
    ELSE LET d1 == mkdir(d, folder)
         IN IF ~exists(d1, <<folder, f.name>>) \/ overwrite
            THEN IF f.fail = "copy"
                 THEN [dest |-> d1, out |-> "raised"]
                 ELSE [dest |-> copy2(d1, f, <<folder, f.name>>), out |-> "copied"]
            ELSE [dest |-> d1, out |-> "skipped"]

\* one iteration of the loop of copy_by_year over a qualifying file: stats and
\* destination after it
CliProcessFile(s, d, f, o) ==
    LET s1 == [s EXCEPT !.total = @ + 1]
        year == cli_get_song_year(f, o.args_set)
    IN IF year = Raised
       THEN [stats |-> [s1 EXCEPT !.errors = @ + 1], dest |-> d]
       ELSE IF year # NoneStr
       THEN LET s2 == [s1 EXCEPT !.years = DictSet(@, year, DictGet(@, year) + 1)]
                r == CopyInto(d, f, year, o.overwrite)
            IN [stats |-> CASE r.out = "copied" -> [s2 EXCEPT !.copied = @ + 1]
                            [] r.out = "skipped" -> [s2 EXCEPT !.skipped = @ + 1]
                            [] r.out = "raised" -> [s2 EXCEPT !.errors = @ + 1],
                dest |-> r.dest]
       ELSE LET s2 == [s1 EXCEPT !.no_year = @ + 1]
            IN IF o.unknown_year_folder
               THEN LET r == CopyInto(d, f, UnknownYear, o.overwrite)
                    IN [stats |-> IF r.out = "raised" THEN [s2 EXCEPT !.errors = @ + 1] ELSE s2,
                        dest |-> r.dest]
               ELSE [stats |-> s2, dest |-> d]

\* the loop body for any entry of the walk: a non-audio file is passed over
CliEntry(s, d, f, o) ==
    IF f.audio THEN CliProcessFile(s, d, f, o) ELSE [stats |-> s, dest |-> d]

\* copy_by_year(source_folder, destination_folder, options) from entry i on
RECURSIVE CliWalk(_, _, _, _, _)
CliWalk(files, i, s, d, o) ==
    IF i > Len(files) THEN [stats |-> s, dest |-> d]
    ELSE LET r == CliEntry(s, d, files[i], o)
         IN CliWalk(files, i + 1, r.stats, r.dest, o)

copy_by_year(t, d, o) == CliWalk(Flatten(t), 1, EmptyStats, d, o)

\* the branch of the loop body of copy_by_year an entry takes
CliOutcome(d, f, o) ==
    LET year == cli_get_song_year(f, o.args_set)
    IN IF ~f.audio THEN "passed"
       ELSE IF year = Raised THEN "tag_raised"
       ELSE IF year # NoneStr
       THEN LET out == CopyInto(d, f, year, o.overwrite).out
            IN CASE out = "copied" -> "copied"
                 [] out = "skipped" -> "skipped"
                 [] out = "raised" -> "copy_raised"
       ELSE IF o.unknown_year_folder
       THEN LET out == CopyInto(d, f, UnknownYear, o.overwrite).out
            IN CASE out = "copied" -> "unknown_copied"
                 [] out = "skipped" -> "unknown_skipped"
                 [] out = "raised" -> "unknown_raised"
       ELSE "unresolved"

\* the branches taken by entries i..n of the walk, started on destination d
RECURSIVE CliOutcomes(_, _, _, _, _)
CliOutcomes(files, i, n, d, o) ==
    IF i > n THEN << >>
    ELSE <<CliOutcome(d, files[i], o)>>
         \o CliOutcomes(files, i + 1, n, CliEntry(EmptyStats, d, files[i], o).dest, o)

\* ------------------------------------- organizer.MusicOrganizer (resolver)
\* Python None where the resolver returns an int
None == -1

\* the single characters (c) and (p) of a copyright notice
CopyrightSigns == {"(c)", "(p)"}

Whitespace == {" "}

\* 1900 <= year <= datetime.datetime.now().year
InRange(year) == MinYear <= year /\ year <= CurrentYear

Min(S) == CHOOSE x \in S : \A y \in S : x <= y

FourDigitsAt(s, i) == i + 3 <= Len(s) /\ \A k \in i..(i + 3) : s[k] \in Digits

\* re.search(r'(\d{4})', s): group 1 of the leftmost match, as an int
SearchYear(s) ==
    LET at == {i \in 1..Len(s) : FourDigitsAt(s, i)}
    IN IF at = {} THEN None ELSE StrToInt(SubSeq(s, Min(at), Min(at) + 3))

\* re.search(r'(\d{4})[/-]', s)
SearchDatePrefix(s) ==
    LET at == {i \in 1..Len(s) : FourDigitsAt(s, i) /\ i + 4 <= Len(s) /\ s[i + 4] \in {"/", "-"}}
    IN IF at = {} THEN None ELSE StrToInt(SubSeq(s, Min(at), Min(at) + 3))

\* the first index after i that holds no whitespace
SkipSpace(s, i) ==
    Min({j \in (i + 1)..(Len(s) + 1) : j = Len(s) + 1 \/ s[j] \notin Whitespace})

\* re.search(r'[(c)(p)]\s*(\d{4})', s)
SearchCopyrightYear(s) ==
    LET at == {i \in 1..Len(s) : s[i] \in CopyrightSigns /\ FourDigitsAt(s, SkipSpace(s, i))}
    IN IF at = {} THEN None
       ELSE StrToInt(SubSeq(s, SkipSpace(s, Min(at)), SkipSpace(s, Min(at)) + 3))

\* str.strip()
RECURSIVE Strip(_)
Strip(s) ==
    IF s = << >> THEN s
    ELSE IF Head(s) \in Whitespace THEN Strip(Tail(s))
    ELSE IF s[Len(s)] \in Whitespace THEN Strip(SubSeq(s, 1, Len(s) - 1))
    ELSE s

\* int(s): a record with ok = FALSE for ValueError
IntOf(s) ==
    LET t == Strip(s)
    IN IF IsDigitStr(t) THEN [ok |-> TRUE, val |-> StrToInt(t)]
       ELSE IF Len(t) >= 2 /\ Head(t) = "-" /\ IsDigitStr(Tail(t))
            THEN [ok |-> TRUE, val |-> 0 - StrToInt(Tail(t))]
            ELSE [ok |-> FALSE, val |-> 0]

\* MusicOrganizer._parse_year_from_string
_parse_year_from_string(date_str) ==
    IF date_str = << >> THEN None
    ELSE IF IntOf(date_str).ok /\ InRange(IntOf(date_str).val) THEN IntOf(date_str).val
    ELSE IF SearchDatePrefix(date_str) # None /\ InRange(SearchDatePrefix(date_str))
         THEN SearchDatePrefix(date_str)
    ELSE IF SearchYear(date_str) # None /\ InRange(SearchYear(date_str))
         THEN SearchYear(date_str)
    ELSE None

\* MusicOrganizer._extract_year_from_copyright
_extract_year_from_copyright(copyright_text) ==
    IF copyright_text = << >> THEN None
    ELSE IF SearchCopyrightYear(copyright_text) # None
            /\ InRange(SearchCopyrightYear(copyright_text))
         THEN SearchCopyrightYear(copyright_text)
    ELSE IF SearchYear(copyright_text) # None /\ InRange(SearchYear(copyright_text))
         THEN SearchYear(copyright_text)
    ELSE None

\* MusicOrganizer._extract_year_from_filename, on basename and dirname
_extract_year_from_filename(file) ==
    IF SearchYear(file.filename) # None /\ InRange(SearchYear(file.filename))
    THEN SearchYear(file.filename)
    ELSE IF SearchYear(file.directory) # None /\ InRange(SearchYear(file.directory))
         THEN SearchYear(file.directory)
    ELSE None

\* "for tag in chain: if tag in audio: return parse(audio[tag])": the value of
\* the first tag of the chain the file carries, Absent if it carries none
RECURSIVE FirstPresent(_, _, _)
FirstPresent(tags, chain, i) ==
    IF i > Len(chain) THEN Absent
    ELSE IF tags[chain[i]] # Absent THEN tags[chain[i]]
    ELSE FirstPresent(tags, chain, i + 1)

Eyed3Chain == <<"release_date", "recording_date", "original_release_date">>
Id3Chain == <<"TDRC", "TYER", "TDRL", "TDOR">>
GenericChain == <<"date", "year", "TDRC", "TYER", "TDRL", "TDOR">>

\* MusicOrganizer._extract_year_mp3. file.eyed3 is "ok" or "raise" (eyed3
\* raises, or loads no tag); file.reader is what ID3(file_path) does.
_extract_year_mp3(file) ==
    IF file.eyed3 = "ok" /\ FirstPresent(file.tags, Eyed3Chain, 1) # Absent
    THEN _parse_year_from_string(FirstPresent(file.tags, Eyed3Chain, 1))
    ELSE IF file.reader = "ok" /\ FirstPresent(file.tags, Id3Chain, 1) # Absent
         THEN _parse_year_from_string(FirstPresent(file.tags, Id3Chain, 1))
    ELSE _extract_year_from_filename(file)

\* MusicOrganizer._extract_year_flac
_extract_year_flac(file) ==
    IF file.reader # "ok" THEN _extract_year_from_filename(file)
    ELSE IF file.tags["date"] # Absent THEN _parse_year_from_string(file.tags["date"])
    ELSE IF file.tags["year"] # Absent THEN _parse_year_from_string(file.tags["year"])
    ELSE IF file.tags["copyright"] # Absent
         THEN _extract_year_from_copyright(file.tags["copyright"])
    ELSE _extract_year_from_filename(file)

\* MusicOrganizer._extract_year_m4a. The third test reads the undefined name
\* "mp": NameError, caught by "except Exception: pass", so a file without the
\* first two atoms goes to the filename whatever its other atoms.
_extract_year_m4a(file) ==
    IF file.reader # "ok" THEN _extract_year_from_filename(file)
    ELSE IF file.tags["day"] # Absent THEN _parse_year_from_string(file.tags["day"])
    ELSE IF file.tags["yyyy"] # Absent
         THEN IF IntOf(file.tags["yyyy"]).ok
              THEN IntOf(file.tags["yyyy"]).val
              ELSE _extract_year_from_filename(file)
    ELSE _extract_year_from_filename(file)

\* MusicOrganizer.extract_year
extract_year(file) ==
    IF file.ext = "mp3" THEN _extract_year_mp3(file)
    ELSE IF file.ext = "flac" THEN _extract_year_flac(file)
    ELSE IF file.ext = "m4a" THEN _extract_year_m4a(file)
    ELSE IF file.reader = "ok" /\ FirstPresent(file.tags, GenericChain, 1) # Absent
         THEN _parse_year_from_string(FirstPresent(file.tags, GenericChain, 1))
    ELSE _extract_year_from_filename(file)

\* ------------------------------ organize_my_beats.MusicOrganizer (state)
VARIABLES
    tree,             \* the source tree, as os.walk lists it
    dest0,            \* the destination before the run
    dest,             \* the destination
    file_queue,       \* Queue(): the items queued
    unfinished,       \* Queue.unfinished_tasks: put() adds, task_done() subtracts
    stats,            \* self.stats
    processed_files,  \* self.processed_files
    total_files,      \* self.total_files
    stop_event,       \* self.stop_event
    mainpc,           \* position of the thread inside organize()
    spc, sdir, sidx,  \* scanner thread: position, directory and entry listed
    wpc, wfile, wtmp, \* worker threads: position, file in hand, value just read
    stopCalled,       \* the caller has called stop()
    took,             \* history: files per branch taken in worker()
    cb,               \* the arguments of the last progress_callback call
    \* cli.copy_by_year, called MaxRuns times on the same source and destination
    cliOpts,          \* options, and whether the module global "args" is set
    cliPc,            \* "idle", "run" (inside the walk) or "returned"
    cliRun,           \* the number of the call
    cliPos,           \* the entry of the walk the loop is at
    cliStats,         \* the local "stats"
    cliDest,          \* the destination
    cliPrev,          \* stats and destination when the previous call returned
    \* the year resolvers, applied to one file
    yFile,            \* the file
    yOut,             \* the resolver applied and what it returned
    \* cli.main
    cliMain,          \* position in main(), the command line, the two
                      \* directories it names, and the value returned
    \* organize() called again on the same MusicOrganizer
    reruns,           \* the calls of organize() after the first
    \* organizer.MusicOrganizer
    org               \* the object's fields, the target directory's content,
                      \* the position of organize_by_year in its loop and
                      \* the arguments of its last progress callback

concVars == <<tree, dest0, dest, file_queue, unfinished, stats, processed_files,
              total_files, stop_event, mainpc, spc, sdir, sidx, wpc, wfile, wtmp,
              stopCalled, took, cb>>

cliVars == <<cliOpts, cliPc, cliRun, cliPos, cliStats, cliDest, cliPrev>>

yearVars == <<yFile, yOut>>

extVars == <<cliMain, reruns, org>>

vars == <<concVars, cliVars, yearVars, extVars>>

\* what the actions of the concurrent engine leave alone
notConc == <<cliVars, yearVars, extVars>>

\* what the actions of the CLI leave alone
notCli == <<file_queue, unfinished, stats, processed_files, total_files, stop_event,
            mainpc, spc, sdir, sidx, wpc, wfile, wtmp, stopCalled, took, cb, dest,
            yearVars, extVars>>

Workers == 1..NumWorkers

NoCallback == [called |-> FALSE, processed |-> 0, total |-> 0, stats |-> EmptyStats]

NoSnapshot == [stats |-> EmptyStats, dest |-> EmptyDest]

\* the CLI is not run
CliIdle ==
    /\ cliOpts = [overwrite |-> FALSE, unknown_year_folder |-> FALSE, args_set |-> FALSE]
    /\ cliPc = "idle"
    /\ cliRun = 0
    /\ cliPos = 1
    /\ cliStats = EmptyStats
    /\ cliDest = EmptyDest
    /\ cliPrev = NoSnapshot

Pending == [by |-> "none", year |-> None, raised |-> FALSE]

\* no resolver is under test
YearIdle == yFile = NoFile /\ yOut = Pending

\* main() is not running
NoMain ==
    [pc |-> "idle", overwrite |-> FALSE, unknown_year |-> FALSE, source_exists |-> TRUE,
     dest_root0 |-> "present", dest_root |-> "present", rc |-> None]

\* organizer.MusicOrganizer.__init__(source_dir, target_dir), on target d
OrgNew(d) ==
    [pc |-> "idle", run |-> 0, pos |-> 1,
     stats |-> [processed_files |-> 0, organized_files |-> 0, failed_files |-> 0,
                years |-> << >>, errors |-> << >>],
     current_files |-> << >>, total_files |-> 0, abort_requested |-> FALSE,
     dest |-> d, prev |-> d, cb |-> [called |-> FALSE, done |-> 0, total |-> 0],
     aborted0 |-> FALSE, completion |-> [called |-> FALSE, results |-> 0]]

\* main() is not running, organize() has been called at most once and no
\* organizer.MusicOrganizer is at work
ExtIdle == cliMain = NoMain /\ reruns = 0 /\ org = OrgNew(EmptyDest)

\* MusicOrganizer.__init__ has run
ConcIdle ==
    /\ dest = dest0
    /\ file_queue = << >>
    /\ unfinished = 0
    /\ stats = EmptyStats
    /\ processed_files = 0
    /\ total_files = 0
    /\ stop_event = FALSE
    /\ spc = "idle" /\ sdir = 1 /\ sidx = 1
    /\ wpc = [w \in Workers |-> "idle"]
    /\ wfile = [w \in Workers |-> NoFile]
    /\ wtmp = [w \in Workers |-> 0]
    /\ stopCalled = FALSE
    /\ took = [copied |-> 0, skipped |-> 0, no_year |-> 0, errors |-> 0, years |-> << >>]
    /\ cb = NoCallback

\* MusicOrganizer.__init__, with organize() about to be called
Init ==
    /\ tree \in Trees(ConcPool)
    /\ dest0 \in InitialDests
    /\ ConcIdle
    /\ mainpc = "start"
    /\ CliIdle
    /\ YearIdle
    /\ ExtIdle

\* ------------------------------------ MusicOrganizer.scan_files (scanner)
\* the position after entry i of directory d: the next entry, or the stop
\* check that precedes the next directory
ScanAdvance(d, i) ==
    IF i < Len(tree[d])
    THEN spc' = "list" /\ sdir' = d /\ sidx' = i + 1
    ELSE spc' = "check" /\ sdir' = d + 1 /\ sidx' = 1

\* for root, _, files in os.walk(...): if self.stop_event.is_set(): break
ScanCheck ==
    /\ spc = "check"
    /\ IF sdir > Len(tree) \/ stop_event
       THEN spc' = "done" /\ UNCHANGED <<sdir, sidx>>
       ELSE IF Len(tree[sdir]) = 0
            THEN spc' = "check" /\ sdir' = sdir + 1 /\ sidx' = 1
            ELSE spc' = "list" /\ sidx' = 1 /\ UNCHANGED sdir
    /\ UNCHANGED <<tree, dest0, dest, file_queue, unfinished, stats, processed_files,
                   total_files, stop_event, mainpc, wpc, wfile, wtmp, stopCalled, took, cb, notConc>>

\* for file in files: if suffix in AUDIO_EXTENSIONS: self.file_queue.put(filepath)
ScanFile ==
    /\ spc = "list"
    /\ LET f == tree[sdir][sidx]
       IN IF f.audio
          THEN /\ file_queue' = Append(file_queue, f)
               /\ unfinished' = unfinished + 1
               /\ spc' = "inc_total_files"
               /\ UNCHANGED <<sdir, sidx>>
          ELSE /\ ScanAdvance(sdir, sidx)
               /\ UNCHANGED <<file_queue, unfinished>>
    /\ UNCHANGED <<tree, dest0, dest, stats, processed_files, total_files, stop_event,
                   mainpc, wpc, wfile, wtmp, stopCalled, took, cb,
                   notConc>>

\* self.total_files += 1 (the scanner is the only writer)
ScanIncTotalFiles ==
    /\ spc = "inc_total_files"
    /\ total_files' = total_files + 1
    /\ spc' = "inc_total"
    /\ UNCHANGED <<tree, dest0, dest, file_queue, unfinished, stats, processed_files,
                   stop_event, mainpc, sdir, sidx, wpc, wfile, wtmp, stopCalled, took, cb,
                   notConc>>

\* self.stats["total"] += 1 (the scanner is the only writer of this key)
ScanIncTotal ==
    /\ spc = "inc_total"
    /\ stats' = [stats EXCEPT !.total = @ + 1]
    /\ ScanAdvance(sdir, sidx)
    /\ UNCHANGED <<tree, dest0, dest, file_queue, unfinished, processed_files, total_files,
                   stop_event, mainpc, wpc, wfile, wtmp, stopCalled, took, cb,
                   notConc>>

\* ---------------------------------------- MusicOrganizer.worker (workers)
WorkerFrame == <<tree, dest0, total_files, stop_event, mainpc, spc, sdir, sidx, stopCalled,
                 notConc>>

\* while not self.stop_event.is_set():
WorkerCheck(w) ==
    /\ wpc[w] = "check"
    /\ wpc' = [wpc EXCEPT ![w] = IF stop_event THEN "exited" ELSE "get"]
    /\ UNCHANGED <<WorkerFrame, dest, file_queue, unfinished, stats, processed_files,
                   wfile, wtmp, took, cb>>

\* filepath = self.file_queue.get_nowait(), except: break;
\* then year = self.get_song_year(filepath) and the test "if year:"
WorkerGet(w) ==
    /\ wpc[w] = "get"
    /\ IF file_queue = << >>
       THEN /\ wpc' = [wpc EXCEPT ![w] = "exited"]
            /\ UNCHANGED <<file_queue, wfile, took>>
       ELSE LET f == Head(file_queue)
            IN /\ file_queue' = Tail(file_queue)
               /\ wfile' = [wfile EXCEPT ![w] = f]
               /\ IF get_song_year(f) # NoneStr
                  THEN wpc' = [wpc EXCEPT ![w] = "mkdir"] /\ UNCHANGED took
                  ELSE /\ wpc' = [wpc EXCEPT ![w] = "rd_no_year"]
                       /\ took' = [took EXCEPT !.no_year = @ + 1]
    /\ UNCHANGED <<WorkerFrame, dest, unfinished, stats, processed_files, wtmp, cb>>

\* year_folder.mkdir(parents=True, exist_ok=True); if not dest_file.exists():
WorkerMkdir(w) ==
    /\ wpc[w] = "mkdir"
    /\ LET f == wfile[w]
           year == get_song_year(f)
       IN IF MkdirRaises(dest, f, year)
          THEN /\ wpc' = [wpc EXCEPT ![w] = "rd_errors"]
               /\ took' = [took EXCEPT !.errors = @ + 1]
               /\ UNCHANGED dest
          ELSE /\ dest' = mkdir(dest, year)
               /\ IF ~exists(dest, <<year, f.name>>)
                  THEN wpc' = [wpc EXCEPT ![w] = "copy"] /\ UNCHANGED took
                  ELSE /\ wpc' = [wpc EXCEPT ![w] = "rd_skipped"]
                       /\ took' = [took EXCEPT !.skipped = @ + 1]
    /\ UNCHANGED <<WorkerFrame, file_queue, unfinished, stats, processed_files, wfile,
                   wtmp, cb>>

\* shutil.copy2(filepath, dest_file)
WorkerCopy(w) ==
    /\ wpc[w] = "copy"
    /\ LET f == wfile[w]
           year == get_song_year(f)
       IN IF f.fail = "copy"
          THEN /\ wpc' = [wpc EXCEPT ![w] = "rd_errors"]
               /\ took' = [took EXCEPT !.errors = @ + 1]
               /\ UNCHANGED dest
          ELSE /\ dest' = copy2(dest, f, <<year, f.name>>)
               /\ wpc' = [wpc EXCEPT ![w] = "rd_copied"]
               /\ took' = [took EXCEPT !.copied = @ + 1,
                                        !.years = DictSet(@, year, DictGet(@, year) + 1)]
    /\ UNCHANGED <<WorkerFrame, file_queue, unfinished, stats, processed_files, wfile,
                   wtmp, cb>>

\* the value a worker at position pc loads before adding one to it
Loaded(w, pc) ==
    CASE pc = "rd_copied" -> stats.copied
      [] pc = "rd_years" -> DictGet(stats.years, get_song_year(wfile[w]))
      [] pc = "rd_skipped" -> stats.skipped
      [] pc = "rd_no_year" -> stats.no_year
      [] pc = "rd_errors" -> stats.errors
      [] pc = "rd_processed" -> processed_files

\* the store that follows the load made at position pc
StoreOf(pc) ==
    CASE pc = "rd_copied" -> "wr_copied"
      [] pc = "rd_years" -> "wr_years"
      [] pc = "rd_skipped" -> "wr_skipped"
      [] pc = "rd_no_year" -> "wr_no_year"
      [] pc = "rd_errors" -> "wr_errors"
      [] pc = "rd_processed" -> "wr_processed"

\* the first half of "x += 1" on a shared counter: load x (no lock is held)
WorkerLoad(w) ==
    /\ wpc[w] \in {"rd_copied", "rd_years", "rd_skipped", "rd_no_year", "rd_errors",
                   "rd_processed"}
    /\ wtmp' = [wtmp EXCEPT ![w] = Loaded(w, wpc[w])]
    /\ wpc' = [wpc EXCEPT ![w] = StoreOf(wpc[w])]
    /\ UNCHANGED <<WorkerFrame, dest, file_queue, unfinished, stats, processed_files,
                   wfile, took, cb>>

\* the second half of "x += 1": store the loaded value plus one
WorkerStore(w) ==
    /\ wpc[w] \in {"wr_copied", "wr_years", "wr_skipped", "wr_no_year", "wr_errors",
                   "wr_processed"}
    /\ LET v == wtmp[w] + 1
       IN CASE wpc[w] = "wr_copied" ->
                 /\ stats' = [stats EXCEPT !.copied = v]
                 /\ wpc' = [wpc EXCEPT ![w] = "rd_years"]
                 /\ UNCHANGED processed_files
            [] wpc[w] = "wr_years" ->
                 /\ stats' = [stats EXCEPT !.years = DictSet(@, get_song_year(wfile[w]), v)]
                 /\ wpc' = [wpc EXCEPT ![w] = "rd_processed"]
                 /\ UNCHANGED processed_files
            [] wpc[w] = "wr_skipped" ->
                 /\ stats' = [stats EXCEPT !.skipped = v]
                 /\ wpc' = [wpc EXCEPT ![w] = "rd_processed"]
                 /\ UNCHANGED processed_files
            [] wpc[w] = "wr_no_year" ->
                 /\ stats' = [stats EXCEPT !.no_year = v]
                 /\ wpc' = [wpc EXCEPT ![w] = "rd_processed"]
                 /\ UNCHANGED processed_files
            [] wpc[w] = "wr_errors" ->
                 /\ stats' = [stats EXCEPT !.errors = v]
                 /\ wpc' = [wpc EXCEPT ![w] = "task_done"]
                 /\ UNCHANGED processed_files
            [] wpc[w] = "wr_processed" ->
                 /\ processed_files' = v
                 /\ wpc' = [wpc EXCEPT ![w] = "callback"]
                 /\ UNCHANGED stats
    /\ wtmp' = [wtmp EXCEPT ![w] = 0]
    /\ UNCHANGED <<WorkerFrame, dest, file_queue, unfinished, wfile, took, cb>>

\* self.progress_callback(self.processed_files, self.total_files, self.stats)
WorkerCallback(w) ==
    /\ wpc[w] = "callback"
    /\ cb' = [called |-> TRUE, processed |-> processed_files, total |-> total_files,
              stats |-> stats]
    /\ wpc' = [wpc EXCEPT ![w] = "task_done"]
    /\ UNCHANGED <<WorkerFrame, dest, file_queue, unfinished, stats, processed_files,
                   wfile, wtmp, took>>

\* a worker whose "finally" clause leaves the item unmarked
WorkerTaskDoneUnmarked(w) ==
    /\ wpc[w] = "task_done"
    /\ wfile' = [wfile EXCEPT ![w] = NoFile]
    /\ wpc' = [wpc EXCEPT ![w] = "check"]
    /\ UNCHANGED <<WorkerFrame, dest, file_queue, unfinished, stats, processed_files, wtmp,
                   took, cb>>

\* finally: self.file_queue.task_done()
WorkerTaskDone(w) ==
    /\ wpc[w] = "task_done"
    /\ unfinished' = unfinished - 1
    /\ wfile' = [wfile EXCEPT ![w] = NoFile]
    /\ wpc' = [wpc EXCEPT ![w] = "check"]
    /\ UNCHANGED <<WorkerFrame, dest, file_queue, stats, processed_files, wtmp, took, cb>>

\* ---------------------------------- MusicOrganizer.organize (main thread)
MainFrame == <<tree, dest0, dest, file_queue, unfinished, stats, processed_files,
               total_files, sdir, sidx, wfile, wtmp, took, cb, notConc>>

\* self.stop_event.clear(); scanner_thread.start()
OrganizeStart ==
    /\ mainpc = "start"
    /\ stop_event' = FALSE
    /\ spc' = "check"
    /\ mainpc' = "start_workers"
    /\ UNCHANGED <<MainFrame, wpc, stopCalled>>

\* for _ in range(num_workers): t.start()
StartWorker ==
    /\ mainpc = "start_workers"
    /\ LET w == CHOOSE x \in Workers : wpc[x] = "idle" /\ \A y \in Workers : y < x => wpc[y] # "idle"
       IN /\ wpc' = [wpc EXCEPT ![w] = "check"]
          /\ mainpc' = IF w = NumWorkers THEN "queue_join" ELSE "start_workers"
    /\ UNCHANGED <<MainFrame, stop_event, spc, stopCalled>>

\* self.file_queue.join(): blocks until unfinished_tasks is 0
QueueJoin ==
    /\ mainpc = "queue_join"
    /\ unfinished = 0
    /\ mainpc' = "set_stop"
    /\ UNCHANGED <<MainFrame, stop_event, spc, wpc, stopCalled>>

\* self.stop_event.set()
SetStop ==
    /\ mainpc = "set_stop"
    /\ stop_event' = TRUE
    /\ mainpc' = "join_threads"
    /\ UNCHANGED <<MainFrame, spc, wpc, stopCalled>>

\* scanner_thread.join(); for t in self.worker_threads: t.join(); return
JoinThreads ==
    /\ mainpc = "join_threads"
    /\ spc = "done"
    /\ \A w \in Workers : wpc[w] = "exited"
    /\ mainpc' = "returned"
    /\ UNCHANGED <<MainFrame, stop_event, spc, wpc, stopCalled>>

\* MusicOrganizer.stop, called by another thread while organize() runs
Stop ==
    /\ mainpc \in {"start_workers", "queue_join", "set_stop", "join_threads"}
    /\ ~stopCalled
    /\ stop_event' = TRUE
    /\ stopCalled' = TRUE
    /\ UNCHANGED <<MainFrame, mainpc, spc, wpc>>

Scanner == ScanCheck \/ ScanFile \/ ScanIncTotalFiles \/ ScanIncTotal

Worker(w) ==
    \/ WorkerCheck(w) \/ WorkerGet(w) \/ WorkerMkdir(w) \/ WorkerCopy(w)
    \/ WorkerLoad(w) \/ WorkerStore(w) \/ WorkerCallback(w) \/ WorkerTaskDone(w)

Main == OrganizeStart \/ StartWorker \/ QueueJoin \/ SetStop \/ JoinThreads

Next ==
    \/ ScanCheck \/ ScanFile \/ ScanIncTotalFiles \/ ScanIncTotal
    \/ \E w \in Workers :
         \/ WorkerCheck(w) \/ WorkerGet(w) \/ WorkerMkdir(w) \/ WorkerCopy(w)
         \/ WorkerLoad(w) \/ WorkerStore(w) \/ WorkerCallback(w) \/ WorkerTaskDone(w)
    \/ OrganizeStart \/ StartWorker \/ QueueJoin \/ SetStop \/ JoinThreads
    \/ Stop

Spec == Init /\ [][Next]_vars

\* every thread of the engine keeps running while it can take a step
FairSpec ==
    /\ Init /\ [][Next]_vars
    /\ WF_vars(Scanner)
    /\ \A w \in Workers : WF_vars(Worker(w))
    /\ WF_vars(Main)


\* ----------------------------------- organize() called again (same object)
MaxReruns == 1

\* organize() called on a MusicOrganizer whose previous organize() has
\* returned: stop_event.clear(), worker_threads = [], a new scanner thread and
\* new workers. Nothing else is reset: stats, processed_files, total_files
\* and the queue are those __init__ made, as the previous call left them.
OrganizeAgain ==
    /\ mainpc = "returned"
    /\ reruns < MaxReruns
    /\ reruns' = reruns + 1
    /\ stop_event' = FALSE
    /\ spc' = "check" /\ sdir' = 1 /\ sidx' = 1
    /\ wpc' = [w \in Workers |-> "idle"]
    /\ mainpc' = "start_workers"
    /\ UNCHANGED <<tree, dest0, dest, file_queue, unfinished, stats, processed_files,
                   total_files, wfile, wtmp, stopCalled, took, cb, cliVars, yearVars, cliMain,
                   org>>

MaxRerunFiles == 1

\* the trees organize() is called twice on
RerunPool == {fDated, fPlain, fLocked, fText}

InitRerun ==
    /\ tree \in {t \in Trees(RerunPool) : Len(Qualifying(t)) <= MaxRerunFiles}
    /\ dest0 \in InitialDests
    /\ ConcIdle
    /\ mainpc = "start"
    /\ CliIdle
    /\ YearIdle
    /\ ExtIdle

NextRerun == Next \/ OrganizeAgain

SpecRerun == InitRerun /\ [][NextRerun]_vars

\* ------------------------------------------- cli.copy_by_year (two calls)
MaxRuns == 2

CliFiles == Flatten(tree)

\* stats = {...}: copy_by_year is called
CliCall ==
    /\ cliPc \in {"idle", "returned"}
    /\ cliRun < MaxRuns
    /\ cliRun' = cliRun + 1
    /\ cliPc' = "run"
    /\ cliPos' = 1
    /\ cliStats' = EmptyStats
    /\ cliPrev' = [stats |-> cliStats, dest |-> cliDest]
    /\ UNCHANGED <<tree, dest0, cliOpts, cliDest, notCli>>

\* a loop body that moves the file where copy_by_year copies it
CliFileMoving ==
    /\ cliPc = "run"
    /\ cliPos <= Len(CliFiles)
    /\ LET r == CliEntry(cliStats, cliDest, CliFiles[cliPos], cliOpts)
       IN /\ cliStats' = r.stats /\ cliDest' = r.dest
          /\ tree' = IF r.dest.files = cliDest.files THEN tree
                     ELSE [d \in DOMAIN tree |->
                             SelectSeq(tree[d], LAMBDA x : x # CliFiles[cliPos])]
    /\ cliPos' = cliPos + 1
    /\ UNCHANGED <<dest0, cliOpts, cliPc, cliRun, cliPrev, notCli>>

\* one entry of "for root, dirs, files in os.walk(...): for file in files:"
CliFile ==
    /\ cliPc = "run"
    /\ cliPos <= Len(CliFiles)
    /\ LET r == CliEntry(cliStats, cliDest, CliFiles[cliPos], cliOpts)
       IN cliStats' = r.stats /\ cliDest' = r.dest
    /\ cliPos' = cliPos + 1
    /\ UNCHANGED <<tree, dest0, cliOpts, cliPc, cliRun, cliPrev, notCli>>

\* return stats
CliReturn ==
    /\ cliPc = "run"
    /\ cliPos > Len(CliFiles)
    /\ cliPc' = "returned"
    /\ UNCHANGED <<tree, dest0, cliOpts, cliRun, cliPos, cliStats, cliDest, cliPrev, notCli>>

InitCli ==
    /\ tree \in Trees(CliPool) \cup {ExampleTree}
    /\ dest0 \in InitialDests
    /\ ConcIdle
    /\ mainpc = "idle"
    /\ cliOpts \in CliOptions
    /\ cliPc = "idle"
    /\ cliRun = 0
    /\ cliPos = 1
    /\ cliStats = EmptyStats
    /\ cliDest = dest0
    /\ cliPrev = NoSnapshot
    /\ YearIdle
    /\ ExtIdle

NextCli == CliCall \/ CliFile \/ CliReturn

SpecCli == InitCli /\ [][NextCli]_vars

\* ---------------------------------------------------------------- cli.main
\* the ways main() can find the destination directory: there, not there, or
\* not there and impossible to create (mkdir raises)
DestRoots == {"present", "absent", "uncreatable"}

\* MainStart with the destination directory created before the source is
\* looked at
MainStartEager ==
    /\ cliMain.pc = "start"
    /\ IF cliMain.dest_root = "uncreatable"
       THEN /\ cliMain' = [cliMain EXCEPT !.pc = "exit", !.rc = 1]
            /\ cliOpts' = [cliOpts EXCEPT !.args_set = TRUE]
       ELSE IF ~cliMain.source_exists
       THEN /\ cliMain' = [cliMain EXCEPT !.pc = "exit", !.rc = 1, !.dest_root = "present"]
            /\ cliOpts' = [cliOpts EXCEPT !.args_set = TRUE]
       ELSE /\ cliMain' = [cliMain EXCEPT !.pc = "call", !.dest_root = "present"]
            /\ cliOpts' = [overwrite |-> cliMain.overwrite,
                           unknown_year_folder |-> cliMain.unknown_year, args_set |-> TRUE]
    /\ UNCHANGED <<tree, dest0, cliPc, cliRun, cliPos, cliStats, cliDest, cliPrev, reruns,
                   org, concVars, yearVars>>

\* global args; args = parser.parse_args(); the two path tests; options = {...}
MainStart ==
    /\ cliMain.pc = "start"
    /\ IF ~cliMain.source_exists
       THEN /\ cliMain' = [cliMain EXCEPT !.pc = "exit", !.rc = 1]
            /\ cliOpts' = [cliOpts EXCEPT !.args_set = TRUE]
       ELSE IF cliMain.dest_root = "uncreatable"
       THEN /\ cliMain' = [cliMain EXCEPT !.pc = "exit", !.rc = 1]
            /\ cliOpts' = [cliOpts EXCEPT !.args_set = TRUE]
       ELSE /\ cliMain' = [cliMain EXCEPT !.pc = "call", !.dest_root = "present"]
            /\ cliOpts' = [overwrite |-> cliMain.overwrite,
                           unknown_year_folder |-> cliMain.unknown_year, args_set |-> TRUE]
    /\ UNCHANGED <<tree, dest0, cliPc, cliRun, cliPos, cliStats, cliDest, cliPrev, reruns,
                   org, concVars, yearVars>>

\* stats = copy_by_year(args.source, args.destination, options): the call
MainCopyByYear ==
    /\ cliMain.pc = "call"
    /\ cliMain' = [cliMain EXCEPT !.pc = "copy"]
    /\ cliRun' = cliRun + 1
    /\ cliPc' = "run"
    /\ cliPos' = 1
    /\ cliStats' = EmptyStats
    /\ cliPrev' = [stats |-> cliStats, dest |-> cliDest]
    /\ UNCHANGED <<tree, dest0, cliOpts, cliDest, reruns, org, concVars, yearVars>>

\* copy_by_year has returned: the report is printed and main returns 0
MainReturn ==
    /\ cliMain.pc = "copy"
    /\ cliPc = "returned"
    /\ cliMain' = [cliMain EXCEPT !.pc = "exit", !.rc = 0]
    /\ UNCHANGED <<tree, dest0, cliVars, reruns, org, concVars, yearVars>>

\* the command line names a source (with its tree, if it exists) and a
\* destination (with its content, if it exists)
InitMain ==
    /\ \E o, u, se \in BOOLEAN, dr \in DestRoots :
          cliMain = [pc |-> "start", overwrite |-> o, unknown_year |-> u,
                     source_exists |-> se, dest_root0 |-> dr, dest_root |-> dr, rc |-> None]
    /\ IF cliMain.source_exists THEN tree \in Trees(CliPool) ELSE tree = << << >> >>
    /\ IF cliMain.dest_root0 = "present" THEN dest0 \in InitialDests ELSE dest0 = EmptyDest
    /\ ConcIdle
    /\ mainpc = "idle"
    /\ cliOpts = [overwrite |-> FALSE, unknown_year_folder |-> FALSE, args_set |-> FALSE]
    /\ cliPc = "idle"
    /\ cliRun = 0
    /\ cliPos = 1
    /\ cliStats = EmptyStats
    /\ cliDest = dest0
    /\ cliPrev = NoSnapshot
    /\ YearIdle
    /\ reruns = 0
    /\ org = OrgNew(EmptyDest)

NextMain == MainStart \/ MainCopyByYear \/ CliFile \/ CliReturn \/ MainReturn

SpecMain == InitMain /\ [][NextMain]_vars


\* ------------------------------------------------ the resolvers, applied
MaxTags == 2

\* the tag values the resolvers are tried on: "1995-03-02", "1980", "9999",
\* "0042", next year, "xx", "0000 1995", "(c) 2005 L" and ""
TagValues ==
    {<<"1", "9", "9", "5", "-", "0", "3", "-", "0", "2">>,
     <<"1", "9", "8", "0">>,
     <<"9", "9", "9", "9">>,
     <<"0", "0", "4", "2">>,
     <<"2", "0", "2", "7">>,
     <<"x", "x">>,
     <<"0", "0", "0", "0", " ", "1", "9", "9", "5">>,
     <<"(c)", " ", "2", "0", "0", "5", " ", "L">>,
     << >>}

\* "track_1999_live.mp3", "song.mp3", "t3000.mp3", and two directories
FileNames ==
    {<<"t", "_", "1", "9", "9", "9", "_", "l">>, <<"s", "o", "n", "g">>,
     <<"t", "3", "0", "0", "0">>}

Directories == {<<"m", "u", "s", "i", "c">>, <<"h", "i", "t", "s", "2", "0", "0", "1">>}

OrgTagNames ==
    {"release_date", "recording_date", "original_release_date", "TDRC", "TYER", "TDRL",
     "TDOR", "date", "year", "copyright", "day", "yyyy", "dcfd", "cprt"}

\* the tags each format is probed for, in probe order
ChainOf(ext) ==
    CASE ext = "mp3" -> Eyed3Chain \o Id3Chain
      [] ext = "flac" -> <<"date", "year", "copyright">>
      [] ext = "m4a" -> <<"day", "yyyy", "dcfd", "cprt">>
      [] ext = "ogg" -> GenericChain

Range(q) == {q[i] : i \in 1..Len(q)}

\* MaxTags slots, each naming a tag and its value, or Absent for an unused slot
Slots(names) == [1..MaxTags -> names \X (TagValues \cup {Absent})]

\* the tag map t with the slots from i on filled in
RECURSIVE WithSlots(_, _, _)
WithSlots(t, sl, i) ==
    IF i > MaxTags THEN t
    ELSE WithSlots([t EXCEPT ![sl[i][1]] = sl[i][2]], sl, i + 1)

NoOrgTags == [n \in OrgTagNames |-> Absent]

OrgFile(e, y, r, t, n, d) ==
    [ext |-> e, eyed3 |-> y, reader |-> r, tags |-> t, filename |-> n, directory |-> d]

\* str() of an eyed3 date: a year, possibly followed by month and day
IsDate(v) == v = Absent \/ (Len(v) >= 4 /\ IsDigitStr(SubSeq(v, 1, 4)))

\* the files organizer.extract_year is tried on: at most MaxTags tags of the
\* format's chain, each reader working or raising
IsOrgInput(f) ==
    \E e \in {"mp3", "flac", "m4a", "ogg"} :
        \E y \in (IF e = "mp3" THEN {"ok", "raise"} ELSE {"ok"}), r \in {"ok", "raise"},
           sl \in Slots(Range(ChainOf(e))), n \in FileNames, d \in Directories :
             /\ \A i \in 1..MaxTags : sl[i][1] \in Range(Eyed3Chain) => IsDate(sl[i][2])
             /\ f = OrgFile(e, y, r, WithSlots(NoOrgTags, sl, 1), n, d)

\* the files the easy-tag resolvers (get_song_year) are tried on
\* the names of the files the easy-tag resolvers are tried on; the resolvers
\* take the path only to open the file
EasyNames == {"a.mp3", "track_1999_live.mp3"}

IsEasyInput(f) ==
    \E m \in {"ok", "none", "raise"}, sl \in Slots(Range(EasyTags)), n \in EasyNames :
        f = FileRec(n, TRUE, m, WithSlots(NoTags, sl, 1), "none")

IsOrgFile(f) == "ext" \in DOMAIN f

\* a 4-character year string, None or Raised, as a result record
EasyResult(who, y) ==
    [by |-> who,
     year |-> IF y \in {NoneStr, Raised} THEN None ELSE StrToInt(y),
     raised |-> y = Raised]

\* advanced_gui.WorkerThread.get_song_year: as the CLI's, with an exception
\* handler that cannot fail
gui_get_song_year(f) == cli_get_song_year(f, TRUE)

\* organizer.MusicOrganizer.extract_year(file_path)
ExtractYear ==
    /\ yOut = Pending
    /\ IsOrgFile(yFile)
    /\ yOut' = [by |-> "extract_year", year |-> extract_year(yFile), raised |-> FALSE]
    /\ UNCHANGED <<concVars, cliVars, yFile, extVars>>

\* cli.get_song_year(filepath), with the global "args" set or not
CliGetSongYear ==
    /\ yOut = Pending
    /\ ~IsOrgFile(yFile)
    /\ \E args_set \in BOOLEAN : yOut' = EasyResult("cli", cli_get_song_year(yFile, args_set))
    /\ UNCHANGED <<concVars, cliVars, yFile, extVars>>

\* organize_my_beats.MusicOrganizer.get_song_year(filepath)
ConcGetSongYear ==
    /\ yOut = Pending
    /\ ~IsOrgFile(yFile)
    /\ yOut' = EasyResult("concurrent", get_song_year(yFile))
    /\ UNCHANGED <<concVars, cliVars, yFile, extVars>>

\* advanced_gui.WorkerThread.get_song_year(filepath)
GuiGetSongYear ==
    /\ yOut = Pending
    /\ ~IsOrgFile(yFile)
    /\ yOut' = EasyResult("gui", gui_get_song_year(yFile))
    /\ UNCHANGED <<concVars, cliVars, yFile, extVars>>

InitYear ==
    /\ tree = <<<< >>>>
    /\ dest0 = EmptyDest
    /\ ConcIdle
    /\ mainpc = "idle"
    /\ CliIdle
    /\ (IsOrgInput(yFile) \/ IsEasyInput(yFile))
    /\ yOut = Pending
    /\ ExtIdle

NextYear == ExtractYear \/ CliGetSongYear \/ ConcGetSongYear \/ GuiGetSongYear

SpecYear == InitYear /\ [][NextYear]_vars

\* ------------------------------------ organizer.MusicOrganizer (the engine)
MaxOrgRuns == 2

DigitChar(n) ==
    CASE n = 0 -> "0" [] n = 1 -> "1" [] n = 2 -> "2" [] n = 3 -> "3" [] n = 4 -> "4"
      [] n = 5 -> "5" [] n = 6 -> "6" [] n = 7 -> "7" [] n = 8 -> "8" [] n = 9 -> "9"

\* str(n) for an integer n >= 0
RECURSIVE IntToStr(_)
IntToStr(n) == IF n < 10 THEN <<DigitChar(n)>> ELSE IntToStr(n \div 10) \o <<DigitChar(n % 10)>>

\* A source file of the organizer: its base name, whether its suffix is in
\* AUDIO_EXTENSIONS, what the tag readers find at its path, its modification
\* time, and the step of the copy that raises for it, if any.
Song(n, a, pth, mt, f) == [name |-> n, audio |-> a, path |-> pth, mtime |-> mt, fail |-> f]

FlacPath(tags) ==
    OrgFile("flac", "ok", "ok", tags, <<"s", "o", "n", "g">>, <<"m", "u", "s", "i", "c">>)

Dated1995 == [NoOrgTags EXCEPT !["date"] = <<"1", "9", "9", "5", "-", "0", "3", "-", "0", "2">>]

\* a.flac of 1995; an older file of the same name and year; b.flac without a
\* year; c.flac of 1980 whose copy raises; a text file
sNew == Song("a.flac", TRUE, FlacPath(Dated1995), 2, "none")
sOld == Song("a.flac", TRUE, FlacPath(Dated1995), 1, "none")
sPlain == Song("b.flac", TRUE, FlacPath(NoOrgTags), 2, "none")
sLocked == Song("c.flac", TRUE, FlacPath([NoOrgTags EXCEPT !["year"] = <<"1", "9", "8", "0">>]),
                2, "copy")
sText == Song("n.txt", FALSE, FlacPath(NoOrgTags), 2, "none")

OrgPool == {sNew, sOld, sPlain, sLocked, sText}

\* a file that was in the target directory before, older than sNew
OldSong == Song("a.flac", TRUE, FlacPath(NoOrgTags), 1, "none")

StaleOrgDest ==
    [dirs |-> {<<"1", "9", "9", "5">>},
     files |-> (<< <<"1", "9", "9", "5">>, "a.flac" >> :> OldSong)]

\* get_target_path: str(year) if year else "Unknown Year"
OrgYearFolder(year) == IF year # None /\ year # 0 THEN IntToStr(year) ELSE UnknownYear

OrgFailed(st, d, f) ==
    [stats |-> [st EXCEPT !.failed_files = @ + 1, !.errors = Append(@, f.name)], dest |-> d]

\* organize_file(file_path): stats and target directory after it
organize_file(st, d, f) ==
    LET year == extract_year(f.path)
        folder == OrgYearFolder(year)
        target == <<folder, f.name>>
    IN IF MkdirRaises(d, f, folder) THEN OrgFailed(st, d, f)
       ELSE LET d1 == mkdir(d, folder)
            IN IF ~exists(d1, target) \/ f.mtime > d1.files[target].mtime
               THEN IF f.fail = "copy" THEN OrgFailed(st, d1, f)
                    ELSE [stats |->
                            [st EXCEPT !.years = IF year # None /\ year # 0
                                                  THEN DictSet(@, IntToStr(year),
                                                               DictGet(@, IntToStr(year)) + 1)
                                                  ELSE @,
                                       !.organized_files = @ + 1,
                                       !.processed_files = @ + 1],
                          dest |-> copy2(d1, f, target)]
               ELSE [stats |-> [st EXCEPT !.processed_files = @ + 1], dest |-> d1]

OrgFrame == <<concVars, cliVars, yearVars, cliMain, reruns>>

\* an organize_by_year that starts by clearing the abort flag
OrgCallClearing ==
    /\ org.pc \in {"idle", "returned"}
    /\ org.run < MaxOrgRuns
    /\ org' = [org EXCEPT !.pc = "run", !.run = @ + 1, !.pos = 1,
                          !.stats = OrgNew(EmptyDest).stats,
                          !.current_files = IF @ = << >> THEN Qualifying(tree) ELSE @,
                          !.total_files = IF org.current_files = << >>
                                          THEN Len(Qualifying(tree)) ELSE @,
                          !.prev = org.dest,
                          !.abort_requested = FALSE,
                          !.aborted0 = org.abort_requested,
                          !.completion = [called |-> FALSE, results |-> 0]]
    /\ UNCHANGED OrgFrame

\* organize_by_year up to its loop: the stats are rebuilt, the source is
\* scanned unless current_files holds a listing already. aborted0 keeps the
\* value abort_requested has when the call starts; completion holds what the
\* completion callback of the call is given.
OrgCall ==
    /\ org.pc \in {"idle", "returned"}
    /\ org.run < MaxOrgRuns
    /\ org' = [org EXCEPT !.pc = "run", !.run = @ + 1, !.pos = 1,
                          !.stats = OrgNew(EmptyDest).stats,
                          !.current_files = IF @ = << >> THEN Qualifying(tree) ELSE @,
                          !.total_files = IF org.current_files = << >>
                                          THEN Len(Qualifying(tree)) ELSE @,
                          !.prev = org.dest,
                          !.aborted0 = org.abort_requested,
                          !.completion = [called |-> FALSE, results |-> 0]]
    /\ UNCHANGED OrgFrame

\* one iteration of the loop: the abort test (break, completion callback and
\* return), else organize_file and the progress callback
OrgStep ==
    /\ org.pc = "run"
    /\ org.pos <= Len(org.current_files)
    /\ IF org.abort_requested
       THEN org' = [org EXCEPT !.pc = "returned",
                               !.completion = [called |-> TRUE, results |-> org.pos - 1]]
       ELSE LET r == organize_file(org.stats, org.dest, org.current_files[org.pos])
            IN org' = [org EXCEPT !.stats = r.stats, !.dest = r.dest, !.pos = @ + 1,
                                  !.cb = [called |-> TRUE, done |-> org.pos,
                                          total |-> org.total_files]]
    /\ UNCHANGED OrgFrame

\* the loop is over: callback(results, self.stats); return results, self.stats
OrgReturn ==
    /\ org.pc = "run"
    /\ org.pos > Len(org.current_files)
    /\ org' = [org EXCEPT !.pc = "returned",
                          !.completion = [called |-> TRUE, results |-> org.pos - 1]]
    /\ UNCHANGED OrgFrame

\* abort(), called before, while or after organize_by_year runs
OrgAbort ==
    /\ ~org.abort_requested
    /\ org' = [org EXCEPT !.abort_requested = TRUE]
    /\ UNCHANGED OrgFrame

InitOrg ==
    /\ tree \in Trees(OrgPool)
    /\ dest0 \in {EmptyDest, StaleOrgDest}
    /\ ConcIdle
    /\ mainpc = "idle"
    /\ CliIdle
    /\ YearIdle
    /\ cliMain = NoMain
    /\ reruns = 0
    /\ org = OrgNew(dest0)

NextOrg == OrgCall \/ OrgStep \/ OrgReturn \/ OrgAbort

SpecOrg == InitOrg /\ [][NextOrg]_vars

\* =================================================================== claims
NumQualifying == Len(Qualifying(tree))

\* the files a worker has begun, by the branch their processing took
Attempted == took.copied + took.skipped + took.no_year + took.errors

\* every counter holds the number of files that took its branch
CountersMatchBranches ==
    /\ stats.copied = took.copied
    /\ stats.skipped = took.skipped
    /\ stats.no_year = took.no_year
    /\ stats.errors = took.errors
    /\ stats.years = took.years
    /\ processed_files = took.copied + took.skipped + took.no_year

\* C1: with stop() never called, concurrent organize() eventually returns,
\* for every source tree and every interleaving of scanner and workers.
OrganizeReturns == <>(mainpc = "returned" \/ stopCalled)

\* C2: when concurrent organize() returns and stop() was not called, the
\* scanner has listed the whole tree, the queue is empty, stats.total is the
\* number of qualifying files and the outcome counters add up to it.
ReturnMeansAllProcessed ==
    (mainpc = "returned" /\ ~stopCalled) =>
        /\ sdir > Len(tree)
        /\ file_queue = << >>
        /\ stats.total = NumQualifying
        /\ stats.copied + stats.skipped + stats.no_year + stats.errors = stats.total

\* C3: no update of the shared stats is lost: when organize() returns, each
\* counter equals the number of files whose processing took its branch.
NoUpdateLost == (mainpc = "returned") => CountersMatchBranches

\* C4: a sequential run (cli.copy_by_year without overwrite) and the
\* concurrent run on the same tree and destination end with the same stats;
\* stated for the concurrent runs that reached every file and lost no update.
SameStatsAsSequential ==
    (/\ mainpc = "returned" /\ ~stopCalled
     /\ Attempted = NumQualifying /\ stats.total = NumQualifying
     /\ CountersMatchBranches) =>
        stats = copy_by_year(tree, dest0,
                    [overwrite |-> FALSE, unknown_year_folder |-> FALSE,
                     args_set |-> TRUE]).stats

\* C5: once stop() has been called during organize(), organize() eventually
\* returns (with stats.total at most the number of qualifying files).
StopLeadsToReturn ==
    stopCalled ~> (mainpc = "returned" /\ stats.total <= NumQualifying)

\* C6: a worker that has observed the stop flag starts no further file, and
\* the files already begun are finished and show in the stats organize()
\* returns after the stop() call.
CooperativeCancellation ==
    [][/\ \A w \in Workers :
             (wpc[w] = "check" /\ stop_event) => wpc'[w] \in {"check", "exited"}
       /\ \A w \in Workers : wpc[w] = "exited" => wpc'[w] = "exited"
       /\ (stopCalled' /\ mainpc' = "returned") => CountersMatchBranches']_vars

\* C10: a file that raises does not stop the run: without cancellation the
\* files attempted are all the qualifying files, whichever of them fail.
ErrorIsolation ==
    (mainpc = "returned" /\ ~stopCalled /\ took.errors > 0) => Attempted = NumQualifying


\* ------------------------------------------------------------ C7 (SpecCli)
SecondRunReturned == cliPc = "returned" /\ cliRun >= 2 /\ ~cliOpts.overwrite

ResolvedAndPresent(d) ==
    {i \in 1..Len(CliFiles) :
        LET f == CliFiles[i]
            year == cli_get_song_year(f, cliOpts.args_set)
        IN f.audio /\ year \notin {NoneStr, Raised} /\ exists(d, <<year, f.name>>)}

Acceptable(y) == MinYear <= y /\ y <= CurrentYear + 1

\* C8: every year a resolver returns lies in 1900..current_year+1, and a
\* candidate in that range, current_year+1 included, is accepted (stated for
\* a FLAC date tag that is a whole-string integer).
YearsInRange ==
    /\ yOut.year # None => Acceptable(yOut.year)
    /\ (/\ yOut.by = "extract_year" /\ yFile.ext = "flac" /\ yFile.reader = "ok"
        /\ IntOf(yFile.tags["date"]).ok
        /\ Acceptable(IntOf(yFile.tags["date"]).val)) =>
            yOut.year = IntOf(yFile.tags["date"]).val

\* the year one tag provides by the rule that applies to it, None if none
TagYear(file, name) ==
    LET v == file.tags[name]
    IN IF v = Absent THEN None
       ELSE IF name \in {"copyright", "cprt"} THEN _extract_year_from_copyright(v)
       ELSE IF name = "yyyy"
            THEN (IF IntOf(v).ok /\ InRange(IntOf(v).val) THEN IntOf(v).val ELSE None)
       ELSE _parse_year_from_string(v)

\* the tags of the file's format that can be read, in probe order
ReadableChain(file) ==
    IF file.ext = "mp3"
    THEN (IF file.eyed3 = "ok" THEN Eyed3Chain ELSE << >>)
         \o (IF file.reader = "ok" THEN Id3Chain ELSE << >>)
    ELSE IF file.reader = "ok" THEN ChainOf(file.ext) ELSE << >>

\* the first year the chain provides from tag i on, else the filename's, else
\* the directory's
RECURSIVE FirstYear(_, _, _)
FirstYear(file, chain, i) ==
    IF i > Len(chain) THEN _extract_year_from_filename(file)
    ELSE IF TagYear(file, chain[i]) # None THEN TagYear(file, chain[i])
    ELSE FirstYear(file, chain, i + 1)

\* C9: extract_year returns the first in-range year that the tags of the
\* chain, then the filename, then the directory provide; it is unresolved
\* only when all of them fail.
FallsThrough ==
    yOut.by = "extract_year" => yOut.year = FirstYear(yFile, ReadableChain(yFile), 1)


\* ------------------------------------- C11, C12, C15, C16, C20 (SpecCli)
\* the branches taken by the entries the current call has been through
RunOutcomes == CliOutcomes(CliFiles, 1, cliPos - 1, cliPrev.dest, cliOpts)

\* how many of them took the branch b
Took(b) == Cardinality({i \in 1..Len(RunOutcomes) : RunOutcomes[i] = b})

CliReturned == cliPc = "returned"

\* the qualifying entries whose tag reading raises
TagReadRaises == {i \in 1..Len(CliFiles) : CliFiles[i].audio /\ CliFiles[i].meta = "raise"}

\* the qualifying entries for which the resolver finds a year
Resolved ==
    {i \in 1..Len(CliFiles) :
        CliFiles[i].audio /\ CliFiles[i].meta = "ok" /\ ProbeCli(CliFiles[i], 1) # NoneStr}

\* the qualifying entries that are readable and carry no year
Unresolved ==
    {i \in 1..Len(CliFiles) :
        CliFiles[i].audio /\ CliFiles[i].meta # "raise" /\ i \notin Resolved}

\* C11: in a run where exactly one file raises during tag reading and no
\* copy fails, errors is 1 and the file is in no other counter: no_year counts
\* the readable files without a year, copied and skipped the files with one.
TagErrorCounted ==
    (/\ CliReturned
     /\ Cardinality(TagReadRaises) = 1
     /\ \A i \in 1..Len(CliFiles) : CliFiles[i].fail = "none") =>
        /\ cliStats.errors = 1
        /\ cliStats.no_year = Cardinality(Unresolved)
        /\ cliStats.copied + cliStats.skipped = Cardinality(Resolved)

\* the files of the run without a year that were not copied (and did not fail)
UnresolvedWithoutCopy == Took("unresolved") + Took("unknown_skipped")

\* C12: after a completed run, total = copied + skipped +
\* unresolved_without_copy + errors.
Accounting ==
    CliReturned =>
        cliStats.total
            = cliStats.copied + cliStats.skipped + UnresolvedWithoutCopy + cliStats.errors

RECURSIVE SumOver(_, _)
SumOver(d, K) ==
    IF K = {} THEN 0
    ELSE LET k == CHOOSE x \in K : TRUE IN d[k] + SumOver(d, K \ {k})

\* sum(stats["years"].values())
SumYears(d) == SumOver(d, DOMAIN d)

\* C15: at the end of a run the values of stats.years add up to the number
\* of files with a resolved year that the run copied.
YearsCountCopies == CliReturned => SumYears(cliStats.years) = Took("copied")

\* C16: copied counts every file the run copied, those copied into the
\* Unknown Year folder included; the four-file tree run once on an empty
\* destination with overwrite off and the Unknown Year folder on ends with
\* total 4, copied 3, skipped 0, no_year 1, errors 1, years {1995: 1, 1980: 1}.
CopiedCountsAllCopies ==
    /\ CliReturned => cliStats.copied = Took("copied") + Took("unknown_copied")
    /\ (/\ CliReturned /\ cliRun = 1 /\ tree = ExampleTree /\ dest0 = EmptyDest
        /\ ~cliOpts.overwrite /\ cliOpts.unknown_year_folder) =>
            cliStats = [total |-> 4, copied |-> 3, skipped |-> 0, no_year |-> 1, errors |-> 1,
                        years |-> (<<"1", "9", "9", "5">> :> 1) @@ (<<"1", "9", "8", "0">> :> 1)]

\* the loop of copy_by_year goes through entry cliPos
CliStep == cliPc = "run" /\ cliPos <= Len(CliFiles) /\ cliPos' = cliPos + 1

\* The routing of cli.copy_by_year, whose options do have an Unknown Year
\* flag: a file without a resolvable year increments no_year; with the
\* Unknown Year option on, the folder is created and the file is copied to
\* Unknown Year/<filename> unless it is there and overwrite is off (then the
\* file there is left as it is), and nothing else in the destination changes;
\* with the option off the destination is not touched.
CliUnresolvedRouting ==
    [][(/\ CliStep
        /\ CliFiles[cliPos].audio
        /\ cli_get_song_year(CliFiles[cliPos], cliOpts.args_set) = NoneStr) =>
          LET f == CliFiles[cliPos]
              p == <<UnknownYear, f.name>>
          IN /\ cliStats'.no_year = cliStats.no_year + 1
             /\ cliStats'.copied = cliStats.copied /\ cliStats'.skipped = cliStats.skipped
             /\ IF cliOpts.unknown_year_folder
                THEN /\ f.fail = "none" =>
                          /\ UnknownYear \in cliDest'.dirs
                          /\ exists(cliDest', p)
                          /\ cliDest'.files[p]
                                = IF exists(cliDest, p) /\ ~cliOpts.overwrite
                                  THEN cliDest.files[p] ELSE f
                     /\ DOMAIN cliDest'.files \subseteq DOMAIN cliDest.files \cup {p}
                     /\ \A q \in DOMAIN cliDest.files \ {p} :
                            cliDest'.files[q] = cliDest.files[q]
                     /\ cliDest'.dirs \subseteq cliDest.dirs \cup {UnknownYear}
                ELSE cliDest' = cliDest]_vars

\* the folder the loop of copy_by_year files entry i in, given what the
\* resolver finds for it
FolderOf(i) ==
    IF i \in Resolved THEN ProbeCli(CliFiles[i], 1) ELSE UnknownYear

\* C20: after any sequence of runs, a file of the destination is either as
\* it was before the first run or a source file f lying at <Y>/<name of f>,
\* Y the year resolved for f or, f having none, "Unknown Year"; and no folder
\* was created but such a <Y>.
DestinationShape ==
    /\ \A p \in DOMAIN cliDest.files :
          \/ p \in DOMAIN dest0.files /\ cliDest.files[p] = dest0.files[p]
          \/ \E i \in 1..Len(CliFiles) :
                /\ CliFiles[i].audio
                /\ cliDest.files[p] = CliFiles[i]
                /\ p = <<FolderOf(i), CliFiles[i].name>>
    /\ \A y \in cliDest.dirs :
          \/ y \in dest0.dirs
          \/ \E i \in 1..Len(CliFiles) : CliFiles[i].audio /\ y = FolderOf(i)

\* two runs have left a file in a year folder and a file in Unknown Year,
\* neither there before
DestinationShapeWitness ==
    /\ CliReturned /\ cliRun = 2
    /\ \E p, q \in DOMAIN cliDest.files \ DOMAIN dest0.files :
          p[1] = UnknownYear /\ q[1] # UnknownYear

\* ------------------------------------------------------------- C17 (Spec)
\* C17: when organize() has returned from a complete run (never stopped,
\* every qualifying file queued and processed), the last call of the progress
\* callback reported processed_count = total_count = the number of files.
FinalCallback ==
    (/\ mainpc = "returned" /\ ~stopCalled
     /\ NumQualifying > 0
     /\ stats.total = NumQualifying
     /\ Attempted = NumQualifying) =>
        /\ cb.called
        /\ cb.processed = cb.total
        /\ cb.total = NumQualifying

\* --------------------------------------------------------- C18 (SpecMain)
MainExited == cliMain.pc = "exit"

\* C18: main returns 1 exactly when the source directory does not exist or
\* the destination cannot be created; then copy_by_year was never called,
\* nothing was copied, and for a missing source the destination directory was
\* not created either. Otherwise it returns 0, whatever errors were counted.
ExitCode ==
    MainExited =>
        /\ cliMain.rc \in {0, 1}
        /\ cliMain.rc = 1 <=>
              (~cliMain.source_exists \/ cliMain.dest_root0 = "uncreatable")
        /\ cliMain.rc = 1 =>
              /\ cliRun = 0 /\ cliStats = EmptyStats /\ cliDest = dest0
              /\ ~cliMain.source_exists => cliMain.dest_root = cliMain.dest_root0
        /\ cliMain.rc = 0 =>
              /\ cliRun = 1 /\ CliReturned
              /\ cliMain.dest_root = "present"

\* main has returned 1 for a missing source, the destination not being there
ExitCodeWitness ==
    /\ MainExited /\ cliMain.rc = 1
    /\ ~cliMain.source_exists /\ cliMain.dest_root0 = "absent"

\* -------------------------------------------------------- C19 (SpecRerun)
\* C19: the stats a second organize() on the same object returns count only
\* the files of the second run: not more than the qualifying files in total,
\* and not more than that many outcomes.
SecondCallFromEmpty ==
    (mainpc = "returned" /\ reruns = 1) =>
        /\ stats.total <= NumQualifying
        /\ stats.copied + stats.skipped + stats.no_year + stats.errors <= NumQualifying
        /\ SumYears(stats.years) <= NumQualifying

\* ----------------------------------------------------- C13, C14 (SpecOrg)
\* organize_by_year puts the file at org.pos through organize_file
OrgProcesses == org.pc = "run" /\ org'.pos = org.pos + 1

OrgCurrent == org.current_files[org.pos]

OrgResolved(f) == extract_year(f.path) \notin {None, 0}

\* C13: a file without a resolvable year is copied to Unknown Year/<name>
\* only when the caller has asked for the Unknown Year folder; otherwise
\* nothing is created or written in the destination for it.
\* organize_by_year takes no such option, so the caller has never asked.
UnresolvedStaysOut ==
    [][(OrgProcesses /\ ~OrgResolved(OrgCurrent)) => org'.dest = org.dest]_vars

\* C14: a file with a resolved year is copied, and counted as copied, if
\* its destination <year>/<name> does not exist or overwrite is set; if it
\* exists the file there is left as it is and nothing is counted as copied.
\* organize_by_year takes no overwrite option, so overwrite is never set.
ExistenceRule ==
    [][(OrgProcesses /\ OrgResolved(OrgCurrent)) =>
          LET f == OrgCurrent
              target == <<IntToStr(extract_year(f.path)), f.name>>
          IN IF ~exists(org.dest, target)
             THEN f.fail = "none" =>
                    /\ exists(org'.dest, target) /\ org'.dest.files[target] = f
                    /\ org'.stats.organized_files = org.stats.organized_files + 1
             ELSE /\ org'.dest.files[target] = org.dest.files[target]
                  /\ org'.stats.organized_files = org.stats.organized_files]_vars

\* ------------------------------------------------ C21 .. C24 (SpecYear)
\* the year an easy tag provides: its first four characters, if digits and
\* in the accepted range
EasyTagYear(f, name) ==
    LET v == f.tags[name]
    IN IF v # Absent /\ Len(v) >= 4 /\ IsDigitStr(SubSeq(v, 1, 4))
          /\ Acceptable(StrToInt(SubSeq(v, 1, 4)))
       THEN StrToInt(SubSeq(v, 1, 4))
       ELSE None

\* the year of the first easy tag, from tag i on, that provides one
RECURSIVE FirstEasyYear(_, _)
FirstEasyYear(f, i) ==
    IF i > Len(EasyTags) THEN None
    ELSE IF EasyTagYear(f, EasyTags[i]) # None THEN EasyTagYear(f, EasyTags[i])
    ELSE FirstEasyYear(f, i + 1)

\* the year of the first tag of the chain, from tag i on, that provides one
RECURSIVE FirstTagYear(_, _, _)
FirstTagYear(file, chain, i) ==
    IF i > Len(chain) THEN None
    ELSE IF TagYear(file, chain[i]) # None THEN TagYear(file, chain[i])
    ELSE FirstTagYear(file, chain, i + 1)

\* the resolver has returned a result for yFile
Answered == yOut # Pending /\ ~yOut.raised

\* C21: in every resolver the first tag in probe order that yields an
\* in-range year determines the result; in particular a date tag with a
\* valid year wins over a year tag with another valid year.
TagPriority ==
    Answered =>
        IF yOut.by = "extract_year"
        THEN FirstTagYear(yFile, ReadableChain(yFile), 1) # None =>
                 yOut.year = FirstTagYear(yFile, ReadableChain(yFile), 1)
        ELSE (yFile.meta = "ok" /\ FirstEasyYear(yFile, 1) # None) =>
                 yOut.year = FirstEasyYear(yFile, 1)

\* the first in-range number among the 4-digit runs of s, scanned from
\* position i on without overlap
RECURSIVE ScanRuns(_, _)
ScanRuns(s, i) ==
    IF i + 3 > Len(s) THEN None
    ELSE IF ~FourDigitsAt(s, i) THEN ScanRuns(s, i + 1)
    ELSE IF Acceptable(StrToInt(SubSeq(s, i, i + 3))) THEN StrToInt(SubSeq(s, i, i + 3))
    ELSE ScanRuns(s, i + 4)

\* the file has no tag its resolver can read
TagsUnreadableOrAbsent(f) ==
    IF IsOrgFile(f)
    THEN FirstPresent(f.tags, ReadableChain(f), 1) = Absent
    ELSE f.meta # "ok" \/ f.tags = NoTags

\* the in-range year in the file's name, None if it has none
NameYear(f) ==
    IF IsOrgFile(f) THEN ScanRuns(f.filename, 1)
    ELSE IF f.name = "track_1999_live.mp3" THEN 1999 ELSE None

\* C22: a file whose tags are unreadable or absent and whose filename
\* contains a 4-digit in-range year resolves to that year.
FilenameFallback ==
    (Answered /\ TagsUnreadableOrAbsent(yFile) /\ NameYear(yFile) # None) =>
        yOut.year = NameYear(yFile)

\* s is a whole-string integer in range
WholeYear(s) == IntOf(s).ok /\ Acceptable(IntOf(s).val)

\* s has an in-range YYYY followed by "-" or "/"
HasDatePrefix(s) ==
    \E i \in 1..Len(s) :
        /\ FourDigitsAt(s, i) /\ i + 4 <= Len(s) /\ s[i + 4] \in {"/", "-"}
        /\ Acceptable(StrToInt(SubSeq(s, i, i + 3)))

\* C23: step c of the date-string rule, seen on the date tag of a FLAC
\* file: for a string that is neither a whole-string in-range integer nor
\* has an in-range YYYY before "-" or "/", the result is the first 4-digit
\* run that is in range, also after an out-of-range run, and unresolved
\* only if no run is in range.
FirstInRangeRun ==
    (/\ yOut.by = "extract_year" /\ yFile.ext = "flac" /\ yFile.reader = "ok"
     /\ yFile.tags["date"] \notin {Absent, << >>}
     /\ ~WholeYear(yFile.tags["date"]) /\ ~HasDatePrefix(yFile.tags["date"])) =>
        yOut.year = ScanRuns(yFile.tags["date"], 1)

\* C24: an MP4/M4A file is probed for the day atom, the numeric year atom,
\* the release-date atom and the copyright atom in that order: without the
\* first two, the year comes from the release-date atom, else from the
\* copyright atom by the copyright rule, before the filename is looked at.
M4aChainReachesCopyright ==
    (/\ yOut.by = "extract_year" /\ yFile.ext = "m4a" /\ yFile.reader = "ok"
     /\ yFile.tags["day"] = Absent /\ yFile.tags["yyyy"] = Absent
     /\ FirstTagYear(yFile, <<"dcfd", "cprt">>, 1) # None) =>
        yOut.year = FirstTagYear(yFile, <<"dcfd", "cprt">>, 1)

\* ------------------------------------------------------ C25 .. C28 (Spec)
\* C25: the scanner tests the stop flag before every directory entry: once
\* stop() has set the flag, the scanner does not move on to enqueue (and
\* count in stats.total) a further file, the remaining files of the
\* directory it is listing included.
ScannerHonoursStop ==
    [][(stopCalled /\ spc' = "list" /\ <<sdir', sidx'>> # <<sdir, sidx>>) =>
          ~tree[sdir'][sidx'].audio]_vars

\* C26: at every call of progress_callback(processed, total, stats),
\* processed <= total and copied + skipped + no_year + errors <= stats.total.
CallbackWithinTotal ==
    cb.called =>
        /\ cb.processed <= cb.total
        /\ cb.stats.copied + cb.stats.skipped + cb.stats.no_year + cb.stats.errors
              <= cb.stats.total

\* the destination files the run has created
NewFiles == {p \in DOMAIN dest.files : p \notin DOMAIN dest0.files}

\* C27: the existence test and the copy of a worker are not interleaved by
\* another worker: each destination path is written at most once per run,
\* so the copies made are as many as the destination files newly created
\* (of two files with one name and one year, one is copied, one skipped).
WrittenOnce == took.copied = Cardinality(NewFiles)

\* the worker holds an item it has dequeued and not yet marked done
InFlight(w) == wpc[w] \notin {"idle", "check", "get", "exited"}

\* C28: every dequeued item is marked done exactly once, also when its
\* processing raises, and no item is marked done that was not dequeued: the
\* unfinished-task count of the queue is the number of items queued plus the
\* number of items being processed.
UnfinishedIsQueuedPlusInFlight ==
    unfinished = Len(file_queue) + Cardinality({w \in Workers : InFlight(w)})

\* join() has returned after an item whose processing raised was marked done
UnfinishedWitness ==
    /\ mainpc = "set_stop" /\ took.errors > 0 /\ unfinished = 0
    /\ file_queue = << >> /\ \A w \in Workers : ~InFlight(w)

\* ------------------------------------------------------- C29 (SpecOrg)
\* C29: the abort flag is sticky: no operation clears abort_requested, and
\* an organize_by_year call that starts after an abort rebuilds the stats,
\* processes no file, leaves the target directory as it is and gives its
\* completion callback an empty results list with every counter 0.
AbortIsSticky ==
    /\ [](( org.pc = "returned" /\ org.aborted0) =>
             /\ org.stats = OrgNew(EmptyDest).stats
             /\ org.pos = 1
             /\ org.dest = org.prev
             /\ org.completion = [called |-> TRUE, results |-> 0])
    /\ [][org.abort_requested => org'.abort_requested]_vars

\* a second call on files to process has returned after an abort
AbortIsStickyWitness ==
    /\ org.pc = "returned" /\ org.aborted0 /\ org.run = 2
    /\ Len(org.current_files) > 0
    /\ org.completion.called

\* ------------------------------------------------------- C30 (SpecCli)
\* C30: organizing only copies: no step of any run, whatever the options
\* and whether files fail or not, changes the set of files under the source
\* directory or their contents (the destination lies outside the source).
SourceUntouched == [][tree' = tree]_vars

\* two runs have been made, files were written and a file has failed
SourceUntouchedWitness ==
    /\ cliPc = "returned" /\ cliRun = 2
    /\ cliStats.errors > 0
    /\ cliDest.files # dest0.files

====
